---- MODULE Spec2Model ----
(***************************************************************************)
(* Model of utility/main.py: SystemHealthMonitor, its four OS probes, the  *)
(* change gate (should_report), the reporter (send_report), the periodic   *)
(* loop (run_periodic_check), start() and the __main__ entry point.        *)
(*                                                                         *)
(* Python values: the probe results True / False / None are the strings    *)
(* "True", "False", "None"; a dict is a function on its keys, the empty    *)
(* dict {} is the function with empty domain.                              *)
(***************************************************************************)
EXTENDS Integers, Sequences, FiniteSets, TLC

VARIABLES
    system,        \* platform.system() of the host, fixed for a run
    once,          \* args.once
    id_file,       \* contents of the identity file, or NoFile
    machine_id,    \* self.machine_id
    last_report,   \* self.last_report
    main_pc,       \* statement the main thread executes next
    main_data,     \* current_data of start() / data of the --once branch,
                   \* kept until the loop's first cycle has probed
    thread_pc,     \* statement the background thread executes next
    current_data,  \* current_data of run_periodic_check
    log_tail,      \* last log line that closed a check cycle
    slept,         \* time.sleep(check_interval) ran since the last cycle closed
    retry,         \* the running loop cycle probed the same checks as the
                   \* cycle before it, and that cycle's delivery failed
    exit_code,     \* process exit status, -1 while running
    probe,         \* ProbeSpec / GateSpec: the function applied
    host,          \* ProbeSpec: result of each external command on the host
    probe_out      \* ProbeSpec / GateSpec: the value it returned

vars == <<system, once, id_file, machine_id, last_report, main_pc, main_data, thread_pc, current_data, log_tail,
          slept, retry, exit_code, probe, host, probe_out>>

(***************************************************************************)
(* Bounds                                                                  *)
(***************************************************************************)
\* datetime.now() is drawn from 1..MaxTime (the wall clock is not monotonic)
MaxTime == 2

Timestamps == 1..MaxTime

(***************************************************************************)
(* Python helpers                                                          *)
(***************************************************************************)
EmptyDict == <<>>

Tri == {"True", "False", "None"}

PyBool(b) == IF b THEN "True" ELSE "False"

\* bool(d) of a dict
Truthy(d) == DOMAIN d # {}

\* d.get(k, default)
dict_get(d, k, default) == IF k \in DOMAIN d THEN d[k] ELSE default

(***************************************************************************)
(* subprocess.run: a result is the exception raised on launch (or "none"), *)
(* the return code, and stdout as a sequence of lines, each line the       *)
(* sequence of its whitespace-separated words.                             *)
(***************************************************************************)
Absent == [exc |-> "FileNotFoundError", returncode |-> 0, stdout |-> <<>>]

TimedOut == [exc |-> "TimeoutExpired", returncode |-> 0, stdout |-> <<>>]

Ran(rc, out) == [exc |-> "none", returncode |-> rc, stdout |-> out]

NoOutput == << <<>> >>

Garbage == << <<"unexpected", "output">> >>

\* `phrase in line`, phrase a sequence of words
LineHas(line, phrase) ==
    \E i \in 0..(Len(line) - Len(phrase)) :
        \A j \in 1..Len(phrase) : line[i + j] = phrase[j]

\* `phrase in result.stdout`
Contains(out, phrase) == \E n \in 1..Len(out) : LineHas(out[n], phrase)

\* result.stdout.strip().split()
RECURSIVE Words(_)
Words(out) == IF out = <<>> THEN <<>> ELSE Head(out) \o Words(Tail(out))

\* int(s): the value, or ValueError
IntValue ==
    [w \in {"5", "10", "15", "300", "600", "900"} |->
        CASE w = "5" -> 5 [] w = "10" -> 10 [] w = "15" -> 15
          [] w = "300" -> 300 [] w = "600" -> 600 [] w = "900" -> 900]

IsInt(w) == w \in DOMAIN IntValue

\* float(s) in tenths: every int literal parses, and so do decimals
TenthsValue ==
    [w \in DOMAIN IntValue \cup {"7.5", "10.5"} |->
        CASE w = "7.5" -> 75 [] w = "10.5" -> 105 [] OTHER -> 10 * IntValue[w]]

IsFloat(w) == w \in DOMAIN TenthsValue

\* subprocess.run(cmd, ...) raised: launch failure, timeout, or check=True
\* with a non-zero return code (CalledProcessError)
Raised(r, check) == r.exc # "none" \/ (check /\ r.returncode # 0)

\* the exception is a subprocess.SubprocessError (FileNotFoundError is not)
IsSubprocessError(r, check) ==
    r.exc = "TimeoutExpired" \/ (r.exc = "none" /\ check /\ r.returncode # 0)

(***************************************************************************)
(* Probe Set.  Each probe takes platform.system() and `run`, the result of *)
(* every external command it may invoke.                                   *)
(***************************************************************************)
Systems == {"Darwin", "Windows", "Linux", "FreeBSD"}

CheckNames == {"disk_encryption", "os_updated", "antivirus_active", "sleep_settings_ok"}

check_disk_encryption(sys, run) ==
    CASE sys = "Darwin" ->
            IF Raised(run["diskutil"], FALSE) THEN "None"
            ELSE PyBool(Contains(run["diskutil"].stdout, <<"Encrypted">>))
      [] sys = "Windows" ->
            IF Raised(run["manage-bde"], FALSE) THEN "None"
            ELSE PyBool(Contains(run["manage-bde"].stdout, <<"Protection", "On">>))
      [] sys = "Linux" ->
            IF Raised(run["lsblk"], FALSE) THEN "None"
            ELSE PyBool(Contains(run["lsblk"].stdout, <<"LUKS">>)
                        \/ Contains(run["lsblk"].stdout, <<"crypto">>))
      [] OTHER -> "None"

\* lines 126-140: the apt attempt, its yum fallback, and the outer handler
linux_os_updates(run) ==
    LET upd == run["apt-get update"]
        upg == run["apt-get upgrade"]
        yum == IF Raised(run["yum"], FALSE) THEN "None"
               ELSE PyBool(run["yum"].returncode = 0)
    IN  IF Raised(upd, TRUE)
        THEN IF IsSubprocessError(upd, TRUE) THEN yum ELSE "None"
        ELSE IF Raised(upg, TRUE)
        THEN IF IsSubprocessError(upg, TRUE) THEN yum ELSE "None"
        ELSE PyBool(Contains(upg.stdout, <<"0", "upgraded,", "0", "newly", "installed">>))

check_os_updates(sys, run) ==
    CASE sys = "Darwin" ->
            IF Raised(run["softwareupdate"], FALSE) THEN "None"
            ELSE PyBool(Contains(run["softwareupdate"].stdout,
                                 <<"No", "new", "software", "available">>))
      [] sys = "Windows" ->
            IF Raised(run["ps-updatecount"], FALSE) THEN "None"
            ELSE PyBool(Contains(run["ps-updatecount"].stdout, <<"True">>))
      [] sys = "Linux" -> linux_os_updates(run)
      [] OTHER -> "None"

av_checks == <<"clamav", "freshclam", "rkhunter", "chkrootkit">>

check_antivirus(sys, run) ==
    CASE sys = "Darwin" -> "True"
      [] sys = "Windows" ->
            IF Raised(run["ps-defender"], FALSE) THEN "None"
            ELSE IF Contains(run["ps-defender"].stdout, <<"True">>) THEN "True"
            ELSE IF Raised(run["ps-avproduct"], FALSE) THEN "None"
            ELSE PyBool(Len(Words(run["ps-avproduct"].stdout)) > 0)
      [] sys = "Linux" ->
            PyBool(\E i \in 1..Len(av_checks) :
                       /\ ~Raised(run[av_checks[i]], FALSE)
                       /\ run[av_checks[i]].returncode = 0)
      [] OTHER -> "None"

\* lines 204-208: the first line naming displaysleep decides
pmset_scan(out) ==
    LET hits == {n \in 1..Len(out) : LineHas(out[n], <<"displaysleep">>)}
    IN  IF hits = {} THEN "False"
        ELSE LET line == out[CHOOSE n \in hits : \A m \in hits : n <= m]
             IN  IF Len(line) < 2 \/ ~IsInt(line[2]) THEN "None"
                 ELSE PyBool(IntValue[line[2]] <= 10)

\* lines 240-246: the xset loop; a ValueError leaves it for the handler
RECURSIVE xset_scan(_)
xset_scan(out) ==
    IF out = <<>> THEN "None"
    ELSE LET parts == Head(out)
             at == CHOOSE i \in 1..Len(parts) :
                       parts[i] = "timeout:" /\ \A k \in 1..(i - 1) : parts[k] # "timeout:"
         IN  IF LineHas(parts, <<"timeout:">>) /\ LineHas(parts, <<"DPMS", "is">>)
             THEN IF at + 1 <= Len(parts)
                  THEN IF IsInt(parts[at + 1])
                       THEN PyBool(IntValue[parts[at + 1]] <= 600)
                       ELSE "None"
                  ELSE xset_scan(Tail(out))
             ELSE xset_scan(Tail(out))

check_sleep_settings(sys, run) ==
    CASE sys = "Darwin" ->
            IF Raised(run["pmset"], FALSE) THEN "None"
            ELSE pmset_scan(run["pmset"].stdout)
      [] sys = "Windows" ->
            IF Raised(run["ps-sleep"], FALSE) THEN "None"
            ELSE LET text == Words(run["ps-sleep"].stdout)
                 IN  IF text = <<>> THEN "False"
                     ELSE IF Len(text) = 1 /\ IsFloat(text[1])
                          THEN PyBool(TenthsValue[text[1]] <= 100)
                          ELSE "None"
      [] sys = "Linux" ->
            LET g == run["gsettings"]
                text == Words(g.stdout)
            IN  IF ~Raised(g, FALSE) /\ g.returncode = 0
                   /\ Len(text) = 1 /\ IsInt(text[1])
                THEN PyBool(IntValue[text[1]] <= 600)
                ELSE IF Raised(run["xset"], FALSE) THEN "None"
                     ELSE xset_scan(run["xset"].stdout)
      [] OTHER -> "None"

\* the probe behind each key of "checks" (lines 264-267)
Probe(name, sys, run) ==
    CASE name = "disk_encryption" -> check_disk_encryption(sys, run)
      [] name = "os_updated" -> check_os_updates(sys, run)
      [] name = "antivirus_active" -> check_antivirus(sys, run)
      [] name = "sleep_settings_ok" -> check_sleep_settings(sys, run)

(***************************************************************************)
(* The host: which external commands a probe invokes on a system, and the  *)
(* results each command is sampled from (absent, failing, unparsable,      *)
(* negative and positive output).                                          *)
(***************************************************************************)
Commands(name, sys) ==
    CASE name = "disk_encryption" /\ sys = "Darwin" -> {"diskutil"}
      [] name = "disk_encryption" /\ sys = "Windows" -> {"manage-bde"}
      [] name = "disk_encryption" /\ sys = "Linux" -> {"lsblk"}
      [] name = "os_updated" /\ sys = "Darwin" -> {"softwareupdate"}
      [] name = "os_updated" /\ sys = "Windows" -> {"ps-updatecount"}
      [] name = "os_updated" /\ sys = "Linux" -> {"apt-get update", "apt-get upgrade", "yum"}
      [] name = "antivirus_active" /\ sys = "Windows" -> {"ps-defender", "ps-avproduct"}
      [] name = "antivirus_active" /\ sys = "Linux" -> {av_checks[i] : i \in 1..Len(av_checks)}
      [] name = "sleep_settings_ok" /\ sys = "Darwin" -> {"pmset"}
      [] name = "sleep_settings_ok" /\ sys = "Windows" -> {"ps-sleep"}
      [] name = "sleep_settings_ok" /\ sys = "Linux" -> {"gsettings", "xset"}
      [] OTHER -> {}

\* sample output on which the command's probe finds the setting compliant
PositiveOut(cmd) ==
    CASE cmd = "diskutil" -> << <<"FileVault:", "Yes", "Encrypted">> >>
      [] cmd = "manage-bde" -> << <<"Protection", "Status:", "Protection", "On">> >>
      [] cmd = "lsblk" -> << <<"sda1", "ext4">>, <<"sda2", "LUKS">> >>
      [] cmd = "softwareupdate" -> << <<"No", "new", "software", "available">> >>
      [] cmd = "ps-updatecount" -> << <<"True">> >>
      [] cmd = "apt-get upgrade" -> << <<"0", "upgraded,", "0", "newly", "installed">> >>
      [] cmd = "ps-defender" -> << <<"True">> >>
      [] cmd = "ps-avproduct" -> << <<"Acme", "Antivirus">> >>
      [] cmd = "pmset" -> << <<"sleep", "15">>, <<"displaysleep", "10">> >>
      [] cmd = "ps-sleep" -> << <<"7.5">> >>
      [] cmd = "gsettings" -> << <<"300">> >>
      [] cmd = "xset" -> << <<"timeout:", "600", "DPMS", "is", "Enabled">> >>
      [] OTHER -> NoOutput

\* sample output on which the command's probe finds the setting non-compliant
NegativeOut(cmd) ==
    CASE cmd = "diskutil" -> << <<"FileVault:", "No">> >>
      [] cmd = "manage-bde" -> << <<"Protection", "Status:", "Protection", "Off">> >>
      [] cmd = "lsblk" -> << <<"sda1", "ext4">> >>
      [] cmd = "softwareupdate" -> << <<"Software", "Update", "found", "new", "software">> >>
      [] cmd = "ps-updatecount" -> << <<"False">> >>
      [] cmd = "apt-get upgrade" -> << <<"5", "upgraded,", "0", "newly", "installed">> >>
      [] cmd = "ps-defender" -> << <<"False">> >>
      [] cmd = "pmset" -> << <<"displaysleep", "15">> >>
      [] cmd = "ps-sleep" -> << <<"15">> >>
      [] cmd = "gsettings" -> << <<"900">> >>
      [] cmd = "xset" -> << <<"timeout:", "900", "DPMS", "is", "Enabled">> >>
      [] OTHER -> NoOutput

\* further outputs a probe has to cope with
EdgeOut(cmd) ==
    CASE cmd = "lsblk" -> {<< <<"sda1", "crypto">> >>}
      [] cmd = "pmset" -> {<< <<"displaysleep">> >>, << <<"displaysleep", "never">> >>}
      [] cmd = "ps-sleep" -> {<< <<"5">> >>, << <<"10.5">> >>}
      [] cmd = "gsettings" -> {<< <<"uint32", "900">> >>}
      [] cmd = "xset" -> {<< <<"DPMS", "is", "Enabled", "timeout:">>,
                             <<"timeout:", "off", "DPMS", "is", "Disabled">> >>}
      [] OTHER -> {}

\* commands whose output no probe reads (only the return code counts)
Silent == {"apt-get update", "yum", "clamav", "freshclam", "rkhunter", "chkrootkit"}

Outputs(cmd) ==
    IF cmd \in Silent THEN {NoOutput}
    ELSE {NoOutput, Garbage, PositiveOut(cmd), NegativeOut(cmd)} \cup EdgeOut(cmd)

ReturnCodes(cmd) == IF cmd = "yum" THEN {0, 1, 100} ELSE {0, 1}

Results(cmd) ==
    {Absent} \cup (IF cmd = "apt-get update" THEN {TimedOut} ELSE {})
             \cup {Ran(rc, out) : rc \in ReturnCodes(cmd), out \in Outputs(cmd)}

\* every state of the commands a probe reads
Hosts(name, sys) ==
    {h \in [Commands(name, sys) -> UNION {Results(c) : c \in Commands(name, sys)}] :
        \A c \in Commands(name, sys) : h[c] \in Results(c)}

\* the condition a probe's tools are in
Kinds == {"absent", "failing", "garbage", "negative", "positive"}

SampleResult(cmd, kind) ==
    CASE kind = "absent" -> Absent
      [] kind = "failing" -> Ran(1, NoOutput)
      [] kind = "garbage" -> Ran(0, IF cmd \in Silent THEN NoOutput ELSE Garbage)
      [] kind = "negative" ->
            IF cmd = "yum" THEN Ran(100, NoOutput)
            ELSE IF cmd \in Silent \ {"apt-get update"} THEN Absent
            ELSE Ran(0, NegativeOut(cmd))
      [] kind = "positive" -> Ran(0, PositiveOut(cmd))

\* host conditions a daemon run is checked on: every probe's tools in the
\* same condition, or one probe's tools in another condition than the rest
Profiles ==
    {[n \in CheckNames |-> k] : k \in Kinds}
    \cup {[n \in CheckNames |-> IF n = odd THEN "positive" ELSE "negative"] : odd \in CheckNames}
    \cup {[n \in CheckNames |-> IF n = odd THEN "absent" ELSE "positive"] : odd \in CheckNames}

HostOf(sys, profile) ==
    [c \in UNION {Commands(n, sys) : n \in CheckNames} |->
        SampleResult(c, profile[CHOOSE n \in CheckNames : c \in Commands(n, sys)])]

\* the probe results one run of collect_system_data can see on a system
Postures ==
    [sys \in Systems |->
        {[n \in CheckNames |-> Probe(n, sys, HostOf(sys, p))] : p \in Profiles}]

(***************************************************************************)
(* Identity Store                                                          *)
(***************************************************************************)
NoFile == "<no file>"

\* str(uuid.uuid4())
UUIDs == {"uuid-1"}

\* what the identity file can hold: an id as written, or one padded by hand
StoredIds == UUIDs \cup {" uuid-1\n"}

\* f.read().strip()
Strip(text) == CASE text = " uuid-1\n" -> "uuid-1" [] OTHER -> text

\* statements of __init__ that the identity lookup depends on, in order
init_body == <<"machine_id", "last_report", "logger">>

Before(body, a, b) ==
    \E i, j \in 1..Len(body) : body[i] = a /\ body[j] = b /\ i < j

\* _get_machine_id with the file as found, a fresh uuid, whether the write
\* succeeds, and whether self.logger exists when the write fails
get_machine_id(file, uuid, writable, has_logger) ==
    IF file # NoFile
    THEN [raised |-> FALSE, id |-> Strip(file), file |-> file]
    ELSE IF writable
    THEN [raised |-> FALSE, id |-> uuid, file |-> uuid]
    ELSE IF has_logger
    THEN [raised |-> FALSE, id |-> uuid, file |-> NoFile]
    ELSE [raised |-> TRUE, id |-> "unset", file |-> NoFile]

(***************************************************************************)
(* Report Builder, Change Gate, Reporter                                   *)
(***************************************************************************)
\* platform.version(): cached by the platform module, fixed for a process
PlatformVersion == "v1"

\* the report with the sleep probe's entry left out
collect_system_data_short(mid, now, sys, version, results) ==
    [machine_id |-> mid,
     timestamp |-> now,
     os_name |-> sys,
     os_version |-> version,
     checks |-> [disk_encryption |-> results["disk_encryption"],
                 os_updated |-> results["os_updated"],
                 antivirus_active |-> results["antivirus_active"]]]

collect_system_data(mid, now, sys, version, results) ==
    [machine_id |-> mid,
     timestamp |-> now,
     os_name |-> sys,
     os_version |-> version,
     checks |-> [disk_encryption |-> results["disk_encryption"],
                 os_updated |-> results["os_updated"],
                 antivirus_active |-> results["antivirus_active"],
                 sleep_settings_ok |-> results["sleep_settings_ok"]]]

\* the gate comparing each check's truthiness, so that None and False agree
should_report_truthy(data, baseline) ==
    IF ~Truthy(baseline) THEN TRUE
    ELSE \E n \in CheckNames :
             (data.checks[n] = "True") # (baseline.checks[n] = "True")

\* the gate comparing the whole reports, timestamp included
should_report_whole(data, baseline) ==
    IF ~Truthy(baseline) THEN TRUE ELSE data # baseline

should_report(data, baseline) ==
    IF ~Truthy(baseline) THEN TRUE
    ELSE dict_get(data, "checks", EmptyDict) # dict_get(baseline, "checks", EmptyDict)

Log(msg, status) == [msg |-> msg, status |-> status]

NoLog == Log("", 0)

Http(code) == [kind |-> "response", status_code |-> code]

\* what requests.post does: an answer, a ConnectionError, another exception
Responses ==
    {Http(200), Http(201), Http(500),
     [kind |-> "ConnectionError", status_code |-> 0],
     [kind |-> "Exception", status_code |-> 0]}

\* status_code == 200 on an answered request (line 302)
Delivered(response) == response.kind = "response" /\ response.status_code = 200

\* the log line send_report closes with (lines 303, 307, 311, 314)
send_report_log(response) ==
    CASE Delivered(response) -> Log("Successfully reported to API", response.status_code)
      [] response.kind = "response" /\ ~Delivered(response) ->
            Log("Failed to report to API", response.status_code)
      [] response.kind = "ConnectionError" -> Log("Connection error while reporting to API", 0)
      [] OTHER -> Log("Exception while reporting to API", 0)

\* the baseline assigned for every answered request, whatever its status
send_report_any_status(data, response, baseline) ==
    [last_report |-> IF response.kind = "response" THEN data ELSE baseline,
     ret |-> Delivered(response),
     log |-> send_report_log(response)]

\* the baseline assigned before the request is made
send_report_eager(data, response, baseline) ==
    [last_report |-> data,
     ret |-> Delivered(response),
     log |-> send_report_log(response)]

\* send_report: the baseline it leaves, its return value, its closing log line
send_report(data, response, baseline) ==
    [last_report |-> IF Delivered(response) THEN data ELSE baseline,
     ret |-> Delivered(response),
     log |-> send_report_log(response)]

DeliveryFailed(log) ==
    log.msg \in {"Failed to report to API", "Connection error while reporting to API",
                 "Exception while reporting to API"}

(***************************************************************************)
(* Control flow of the main thread: start() in continuous mode, the        *)
(* --once branch otherwise.                                                *)
(***************************************************************************)
\* start() with the thread started ahead of the initial check
start_body_thread_first == <<"thread.start", "collect_system_data", "send_report">>

\* lines 341-350: the initial check, then the background thread
start_body == <<"collect_system_data", "send_report", "thread.start">>

\* lines 385-387
once_body == <<"collect_system_data", "send_report", "exit">>

\* the statements inside start()'s try block (lines 342-346)
TryStmts == {"collect_system_data", "send_report"}

Body(is_once) == IF is_once THEN once_body ELSE start_body

Terminal(is_once) == IF is_once THEN "exited" ELSE "idle"

IndexOf(body, stmt) == CHOOSE i \in 1..Len(body) : body[i] = stmt

NextStmt(is_once, stmt) ==
    LET body == Body(is_once)
        i == IndexOf(body, stmt)
    IN  IF i < Len(body) THEN body[i + 1] ELSE Terminal(is_once)

\* where start() continues once its except clause has logged
AfterTry(stmt) ==
    LET i == IndexOf(start_body, stmt)
        rest == {j \in (i + 1)..Len(start_body) : start_body[j] \notin TryStmts}
    IN  IF rest = {} THEN Terminal(FALSE)
        ELSE start_body[CHOOSE j \in rest : \A k \in rest : j <= k]

\* the loop without its except clause: the exception ends the thread
periodic_except_missing == [pc |-> "dead", log |-> Log("Error in periodic check", 0)]

\* lines 329-332: the loop's except clause logs and falls through to the sleep
periodic_except == [pc |-> "sleep", log |-> Log("Error in periodic check", 0)]

MainFrame == <<system, once, probe, host, probe_out>>

Init ==
    /\ system \in Systems
    /\ once \in BOOLEAN
    /\ id_file \in {NoFile} \cup StoredIds
    /\ machine_id = "unset"
    /\ last_report = EmptyDict
    /\ main_pc = "__init__"
    /\ main_data = EmptyDict
    /\ thread_pc = "not_started"
    /\ current_data = EmptyDict
    /\ log_tail = NoLog
    /\ slept = FALSE
    /\ retry = FALSE
    /\ exit_code = -1
    /\ probe = "none"
    /\ host = EmptyDict
    /\ probe_out = "none"

\* SystemHealthMonitor(api_endpoint, check_interval), lines 13-18 and 381
M_Construct ==
    /\ main_pc = "__init__"
    /\ \E uuid \in UUIDs, writable \in BOOLEAN :
         LET r == get_machine_id(id_file, uuid, writable,
                                 Before(init_body, "logger", "machine_id"))
         IN  IF r.raised
             THEN /\ main_pc' = "init_failed"
                  /\ exit_code' = 1
                  /\ UNCHANGED <<id_file, machine_id>>
             ELSE /\ main_pc' = Body(once)[1]
                  /\ id_file' = r.file
                  /\ machine_id' = r.id
                  /\ UNCHANGED exit_code
    /\ last_report' = EmptyDict
    /\ UNCHANGED <<main_data, thread_pc, current_data, log_tail, slept, retry>>
    /\ UNCHANGED MainFrame

\* the initial check's collect_system_data (line 343), or line 385
M_Collect ==
    /\ main_pc = "collect_system_data"
    /\ \E now \in Timestamps, results \in Postures[system] :
         main_data' = collect_system_data(machine_id, now, system, PlatformVersion, results)
    /\ main_pc' = NextStmt(once, "collect_system_data")
    /\ log_tail' = Log("Collecting system health data...", 0)
    /\ UNCHANGED <<id_file, machine_id, last_report, thread_pc, current_data,
                   slept, retry, exit_code>>
    /\ UNCHANGED MainFrame

\* an exception escapes collect_system_data on the main thread: start()
\* logs it (lines 345-346), the --once branch has no handler
M_CollectRaises ==
    /\ main_pc = "collect_system_data"
    /\ IF once
       THEN /\ main_pc' = "crashed"
            /\ exit_code' = 1
            /\ UNCHANGED <<log_tail, slept>>
       ELSE /\ main_pc' = AfterTry("collect_system_data")
            /\ log_tail' = Log("Error in initial check", 0)
            /\ slept' = FALSE
            /\ UNCHANGED exit_code
    /\ UNCHANGED <<id_file, machine_id, last_report, main_data, thread_pc,
                   current_data, retry>>
    /\ UNCHANGED MainFrame

\* the initial check's send_report (line 344), or line 386
M_Send ==
    /\ main_pc = "send_report"
    /\ \E response \in Responses :
         LET r == send_report(main_data, response, last_report)
         IN  /\ last_report' = r.last_report
             /\ log_tail' = r.log
    /\ main_pc' = NextStmt(once, "send_report")
    /\ slept' = FALSE
    /\ UNCHANGED <<id_file, machine_id, main_data, thread_pc, current_data,
                   retry, exit_code>>
    /\ UNCHANGED MainFrame

\* thread.start() and the return of start() (lines 349-352)
M_ThreadStart ==
    /\ main_pc = "thread.start"
    /\ thread_pc = "not_started"
    /\ thread_pc' = "collect_system_data"
    /\ main_pc' = NextStmt(once, "thread.start")
    /\ UNCHANGED <<id_file, machine_id, last_report, main_data, current_data,
                   log_tail, slept, retry, exit_code>>
    /\ UNCHANGED MainFrame

\* exit(0 if success else 1), line 387
M_Exit ==
    /\ main_pc = "exit"
    /\ exit_code' = IF log_tail.msg = "Successfully reported to API" THEN 0 ELSE 1
    /\ main_pc' = NextStmt(once, "exit")
    /\ main_data' = EmptyDict
    /\ UNCHANGED <<id_file, machine_id, last_report, thread_pc, current_data,
                   log_tail, slept, retry>>
    /\ UNCHANGED MainFrame

(***************************************************************************)
(* run_periodic_check on the background thread                             *)
(***************************************************************************)
\* line 321
T_Collect ==
    /\ thread_pc = "collect_system_data"
    /\ \E now \in Timestamps, results \in Postures[system] :
         LET data == collect_system_data(machine_id, now, system, PlatformVersion, results)
             prev == IF Truthy(current_data) THEN current_data ELSE main_data
         IN  /\ current_data' = data
             /\ retry' = /\ DeliveryFailed(log_tail)
                         /\ Truthy(prev)
                         /\ prev.checks = data.checks
    /\ thread_pc' = "should_report"
    /\ log_tail' = Log("Collecting system health data...", 0)
    /\ main_data' = IF main_pc = "idle" THEN EmptyDict ELSE main_data
    /\ UNCHANGED <<id_file, machine_id, last_report, main_pc, slept, exit_code>>
    /\ UNCHANGED MainFrame

\* an exception escapes the cycle and reaches the handler at lines 329-330
T_CollectRaises ==
    /\ thread_pc = "collect_system_data"
    /\ thread_pc' = periodic_except.pc
    /\ log_tail' = periodic_except.log
    /\ slept' = FALSE
    /\ retry' = FALSE
    /\ main_data' = IF main_pc = "idle" THEN EmptyDict ELSE main_data
    /\ UNCHANGED <<id_file, machine_id, last_report, main_pc, current_data, exit_code>>
    /\ UNCHANGED MainFrame

\* lines 323-327
T_Gate ==
    /\ thread_pc = "should_report"
    /\ IF should_report(current_data, last_report)
       THEN /\ thread_pc' = "send_report"
            /\ log_tail' = Log("Changes detected, sending report", 0)
            /\ UNCHANGED slept
       ELSE /\ thread_pc' = "sleep"
            /\ log_tail' = Log("No changes detected, skipping report", 0)
            /\ slept' = FALSE
    /\ UNCHANGED <<id_file, machine_id, last_report, main_pc, main_data,
                   current_data, retry, exit_code>>
    /\ UNCHANGED MainFrame

\* line 325
T_Send ==
    /\ thread_pc = "send_report"
    /\ \E response \in Responses :
         LET r == send_report(current_data, response, last_report)
         IN  /\ last_report' = r.last_report
             /\ log_tail' = r.log
    /\ thread_pc' = "sleep"
    /\ slept' = FALSE
    /\ UNCHANGED <<id_file, machine_id, main_pc, main_data, current_data,
                   retry, exit_code>>
    /\ UNCHANGED MainFrame

\* time.sleep(self.check_interval), line 332
T_Sleep ==
    /\ thread_pc = "sleep"
    /\ thread_pc' = "collect_system_data"
    /\ slept' = TRUE
    /\ UNCHANGED <<id_file, machine_id, last_report, main_pc, main_data,
                   current_data, log_tail, retry, exit_code>>
    /\ UNCHANGED MainFrame

Next ==
    \/ M_Construct
    \/ M_Collect
    \/ M_CollectRaises
    \/ M_Send
    \/ M_ThreadStart
    \/ M_Exit
    \/ T_Collect
    \/ T_CollectRaises
    \/ T_Gate
    \/ T_Send
    \/ T_Sleep

Spec == Init /\ [][Next]_vars

(***************************************************************************)
(* The probes as functions: one probe applied to one state of its tools.   *)
(***************************************************************************)
Idle ==
    /\ once = FALSE
    /\ id_file = NoFile
    /\ machine_id = "unset"
    /\ main_pc = "__init__"
    /\ main_data = EmptyDict
    /\ thread_pc = "not_started"
    /\ log_tail = NoLog
    /\ slept = FALSE
    /\ retry = FALSE
    /\ exit_code = -1

ProbeInit ==
    /\ Idle
    /\ probe \in CheckNames
    /\ system \in Systems
    /\ host \in Hosts(probe, system)
    /\ probe_out = "pending"
    /\ last_report = EmptyDict
    /\ current_data = EmptyDict

ProbeRun ==
    /\ probe \in CheckNames
    /\ probe_out = "pending"
    /\ probe_out' = Probe(probe, system, host)
    /\ UNCHANGED <<system, once, id_file, machine_id, last_report, main_pc,
                   main_data, thread_pc, current_data, log_tail, slept, retry,
                   exit_code, probe, host>>

ProbeSpec == ProbeInit /\ [][ProbeRun]_vars

(***************************************************************************)
(* The change gate as a function: should_report applied to any candidate   *)
(* and any baseline, including pairs that differ in os_version.            *)
(***************************************************************************)
OsVersions == {PlatformVersion, "v2"}

GateReports ==
    {collect_system_data(mid, now, "Linux", version, results) :
        mid \in UUIDs, now \in Timestamps, version \in OsVersions,
        results \in [CheckNames -> Tri]}

GateInit ==
    /\ Idle
    /\ probe = "should_report"
    /\ system = "Linux"
    /\ host = EmptyDict
    /\ probe_out = "pending"
    /\ current_data \in GateReports
    /\ last_report \in GateReports \cup {EmptyDict}

GateRun ==
    /\ probe = "should_report"
    /\ probe_out = "pending"
    /\ probe_out' = PyBool(should_report(current_data, last_report))
    /\ UNCHANGED <<system, once, id_file, machine_id, last_report, main_pc,
                   main_data, thread_pc, current_data, log_tail, slept, retry,
                   exit_code, probe, host>>

GateSpec == GateInit /\ [][GateRun]_vars

(***************************************************************************)
(* Properties                                                              *)
(***************************************************************************)
KnownSystems == {"Darwin", "Windows", "Linux"}

Skipped == Log("No changes detected, skipping report", 0)

MainSends == main_pc = "send_report" /\ main_pc' # main_pc

ThreadSends == thread_pc = "send_report" /\ thread_pc' # thread_pc

\* C1: should_report is true whenever there is no baseline; with a baseline
\* it is true exactly when the candidate's checks differ from the baseline's
\* in some key's tri-state value, so a pair that differs only in timestamp
\* or os_version is not reported.
C1_GateComparesChecks ==
    probe_out # "pending" =>
        /\ last_report = EmptyDict => probe_out = "True"
        /\ last_report # EmptyDict =>
              (probe_out = "True" <=>
                  \E n \in CheckNames : current_data.checks[n] # last_report.checks[n])
        /\ ( /\ last_report # EmptyDict
             /\ current_data.machine_id = last_report.machine_id
             /\ current_data.os_name = last_report.os_name
             /\ current_data.checks = last_report.checks ) => probe_out = "False"

\* a single check flipped from NonCompliant to Unknown, and the gate reports
C1_Witness ==
    /\ probe_out = "True"
    /\ last_report # EmptyDict
    /\ \E n \in CheckNames :
          /\ last_report.checks[n] = "False"
          /\ current_data.checks[n] = "None"
          /\ \A m \in CheckNames \ {n} : current_data.checks[m] = last_report.checks[m]

\* C2: last_report changes only in a send_report answered with status 200,
\* which makes it exactly the report sent; every other outcome of
\* send_report leaves it as it was, and no other step writes it.
C2_BaselineOnlyOn200 ==
    [][ /\ last_report' # last_report =>
              /\ log_tail' = Log("Successfully reported to API", 200)
              /\ \/ MainSends /\ last_report' = main_data
                 \/ ThreadSends /\ last_report' = current_data
        /\ (MainSends /\ log_tail'.msg = "Successfully reported to API") =>
              last_report' = main_data
        /\ (ThreadSends /\ log_tail'.msg = "Successfully reported to API") =>
              last_report' = current_data
        /\ ((MainSends \/ ThreadSends) /\ DeliveryFailed(log_tail')) =>
              last_report' = last_report ]_vars

\* a delivery failed after an earlier one had set the baseline
C2_Witness ==
    /\ thread_pc = "sleep"
    /\ DeliveryFailed(log_tail)
    /\ Truthy(last_report)
    /\ last_report # current_data

\* C3: send_report is called in a cycle only when there is no baseline or
\* the cycle's checks differ from the baseline's, so a cycle that probes the
\* checks of the delivered report does not call the Reporter.
C3_SendOnlyOnChange ==
    /\ thread_pc = "send_report" =>
          (~Truthy(last_report) \/ current_data.checks # last_report.checks)
    /\ main_pc = "send_report" =>
          (~Truthy(last_report) \/ main_data.checks # last_report.checks)
    /\ (thread_pc = "sleep" /\ DeliveryFailed(log_tail)) =>
          (~Truthy(last_report) \/ current_data.checks # last_report.checks)

\* a later cycle probed what was delivered, at another time, and skipped
C3_Witness ==
    /\ thread_pc = "sleep"
    /\ log_tail = Skipped
    /\ current_data.checks = last_report.checks
    /\ current_data.timestamp # last_report.timestamp

\* C4: a failed delivery does not make the undelivered report the baseline,
\* and a cycle that probes the same checks as the failed cycle before it
\* never skips delivery.
C4_RetryAfterFailure ==
    /\ retry => log_tail # Skipped
    /\ (retry /\ thread_pc \in {"sleep", "collect_system_data"}) =>
          log_tail.msg \in {"Successfully reported to API", "Failed to report to API",
                            "Connection error while reporting to API",
                            "Exception while reporting to API"}
    /\ (thread_pc = "sleep" /\ DeliveryFailed(log_tail)) => last_report # current_data
    /\ (main_pc = "thread.start" /\ DeliveryFailed(log_tail)) => last_report # main_data

\* the cycle after a failed one probed the same checks and failed again
C4_Witness ==
    /\ retry
    /\ thread_pc = "sleep"
    /\ log_tail = Log("Failed to report to API", 500)
    /\ Truthy(last_report)

\* the command is absent, failed, or printed nothing its probe can parse
\* (yum's 100 is its answer "updates available", not a failure)
Unusable(cmd, r) ==
    \/ r.exc # "none"
    \/ r.returncode # 0 /\ ~(cmd = "yum" /\ r.returncode = 100)
    \/ cmd \notin Silent /\ r.stdout \in {NoOutput, Garbage}

\* C5: a probe whose commands are all absent, failing or unparsable returns
\* None, never False; on an unrecognized system every probe returns None.
C5_ProbesNeverGuess ==
    probe_out # "pending" =>
        /\ ( /\ Commands(probe, system) # {}
             /\ \A c \in Commands(probe, system) : Unusable(c, host[c]) )
              => probe_out # "False"
        /\ system \notin KnownSystems => probe_out = "None"

\* C6: with the identity file absent and the write failing, construction
\* still completes with the generated UUID as machine_id.
C6_IdentityWriteNotFatal ==
    (main_pc # "__init__" /\ id_file = NoFile) =>
        (main_pc # "init_failed" /\ machine_id \in UUIDs)

\* C7: every cycle of the background loop starts after a full interval
\* sleep that followed the close of the cycle before it.
C7_SleepBetweenCycles ==
    thread_pc \in {"should_report", "send_report"} => slept

\* C8: whatever fails in a cycle, the background thread stays in its loop:
\* the failure is logged, the thread sleeps the interval, and the next
\* cycle can start.
C8_LoopSurvives ==
    thread_pc # "not_started" =>
        /\ thread_pc \in {"collect_system_data", "should_report", "send_report", "sleep"}
        /\ (DeliveryFailed(log_tail) \/ log_tail.msg = "Error in periodic check") =>
              thread_pc \in {"sleep", "collect_system_data"}
        /\ thread_pc = "sleep" => ENABLED T_Sleep
        /\ thread_pc = "collect_system_data" => ENABLED T_Collect

\* a cycle raised, the thread slept the interval and is at the next cycle
C8_Witness ==
    /\ thread_pc = "collect_system_data"
    /\ log_tail.msg = "Error in periodic check"
    /\ slept

ValidReport(r) ==
    /\ DOMAIN r = {"machine_id", "timestamp", "os_name", "os_version", "checks"}
    /\ DOMAIN r.checks = CheckNames
    /\ \A n \in CheckNames : r.checks[n] \in Tri

\* C9: every report built, sent or kept as the baseline has a checks mapping
\* with exactly the four check names, each mapped to True, False or None.
C9_ChecksWellFormed ==
    /\ Truthy(main_data) => ValidReport(main_data)
    /\ Truthy(current_data) => ValidReport(current_data)
    /\ Truthy(last_report) => ValidReport(last_report)

\* a report whose probes all returned None was built and became the baseline
C9_Witness ==
    /\ Truthy(last_report)
    /\ \A n \in CheckNames : last_report.checks[n] = "None"

\* C10: the background loop starts only after the startup cycle has
\* finished, so no thread cycle overlaps the main thread's delivery and
\* should_report never reads last_report while send_report writes it.
C10_CyclesSerialized ==
    /\ thread_pc # "not_started" =>
          main_pc \notin {"__init__", "collect_system_data", "send_report"}
    /\ ~(main_pc = "send_report" /\ thread_pc \in {"should_report", "send_report"})

\* the loop's first cycle runs with the startup report delivered
C10_Witness ==
    /\ thread_pc = "should_report"
    /\ main_pc = "idle"
    /\ Truthy(last_report)

====
